---- MODULE Spec2Model ----
(***************************************************************************)
(* Model of arangod/RocksDBEngine/RocksDBMethods.cpp: the RocksDBSavePoint *)
(* guard and the four RocksDBMethods strategies (ReadOnly, Trx,            *)
(* TrxUntracked, Batched).                                                 *)
(*                                                                         *)
(* The storage engine (rocksdb::DB, rocksdb::Transaction,                  *)
(* rocksdb::WriteBatchWithIndex), the TransactionState and the status      *)
(* translation are collaborators whose code is not part of the file; they  *)
(* are modelled at their interface: a write batch is the map from each key *)
(* to the last pending write on it, a savepoint is the batch as it was     *)
(* when the savepoint was set.                                             *)
(***************************************************************************)
EXTENDS Integers, Sequences, FiniteSets, TLC

\* ------------------------------------------------------------------ bounds

\* guards constructed in one run
MaxGuards == 2
\* depth of the savepoint stack reached by direct SetSavePoint() calls
MaxSavePoints == 1
\* DisableIndexing()/EnableIndexing() calls in one run
MaxIdxCalls == 6

Keys == {"k1", "k2"}
Values == {"v1", "v2"}
OpTypes == {"INSERT", "REMOVE"}
Guards == 1..MaxGuards

\* a key that holds no value
NoVal == "absent"
\* a key the write batch holds no write for
Unset == "unset"
\* a key the write batch holds a Delete or SingleDelete for
Deleted == "deleted"

Contents == [Keys -> Values \cup {NoVal}]
Batches == [Keys -> Values \cup {Unset, Deleted}]
EmptyBatch == [k \in Keys |-> Unset]
EmptyDB == [k \in Keys |-> NoVal]

\* ------------------------------------------------------------------ state

VARIABLES
  strategy,        \* the RocksDBMethods subclass the transaction uses
  singleOp,        \* _trx->isSingleOperationTransaction()
  db,              \* committed contents of the column family
  pending,         \* write batch of _state->_rocksTransaction
  savePoints,      \* savepoint stack of _state->_rocksTransaction
  tracked,         \* keys _state->_rocksTransaction tracks for conflicts
  wb,              \* RocksDBBatchedMethods::_wb
  life,            \* per guard: "unborn", "alive", "destroyed"
  handled,         \* per guard: RocksDBSavePoint::_handled
  operationType,   \* per guard: RocksDBSavePoint::_operationType
  issued,          \* per guard: the calls it issued, in order
  notifiedType,    \* per guard: tag of its last rollbackOperation call
  firstFinish,     \* per guard: argument of the first finish() call on it
  commitSince,     \* per guard: intermediate commit since its SetSavePoint
  staleCalls,      \* per guard: Pop/Rollback calls issued after such a commit
  viewAtSet,       \* per guard: visible contents when it was constructed
  outerAtCtor,     \* per guard: guards alive when it was constructed
  putUnder,        \* per guard: last write made on each key in its scope
  nCtor,           \* guards constructed so far
  indexingDisabled,   \* RocksDBTrxMethods::_indexingDisabled
  nativeIndexing,     \* whether the native transaction indexes its writes
  nativeIdxCalls,     \* DisableIndexing/EnableIndexing calls it received
  idxCalls,           \* the calls made on RocksDBTrxMethods, with results
  hints,              \* _state: the transaction's hints
  rocksReadOptions,   \* _state->_rocksReadOptions
  readSnapshot,       \* _state->_readSnapshot
  depthAtFirst,    \* savepoint stack depth when the first guard was constructed
  twin,            \* the same calls made on a transaction of the other strategy
  c7,              \* progress of SetSavePoint; Put; RollbackToSavePoint
  lastCall         \* the call made by the last step and its outcome

kvVars == <<db, pending, savePoints, tracked, wb>>
guardVars == <<life, handled, operationType, issued, notifiedType,
               firstFinish, commitSince, staleCalls, viewAtSet, outerAtCtor,
               nCtor>>
histVars == <<putUnder>>
idxVars == <<indexingDisabled, nativeIndexing, nativeIdxCalls, idxCalls>>
stateVars == <<hints, rocksReadOptions, readSnapshot>>
vars == <<strategy, singleOp, kvVars, guardVars, histVars, idxVars, stateVars,
          depthAtFirst, twin, c7, lastCall>>

\* rocksdb::ReadOptions: the snapshot read from and, for the rest of its
\* fields, fill_cache
NoSnapshot == "nullptr"
Snapshots == {"snapA", "snapB"}
DefaultReadOptions == [snapshot |-> NoSnapshot, fill_cache |-> TRUE]

\* op: the call; g: the guard it is made on; key, val, arg: its arguments;
\* hint: its StatusHint; native: the status of the engine call it makes; res:
\* the errorNumber of the Result returned or exception thrown; out: the value
\* read; ret: the boolean returned; threw: whether it ended by throwing;
\* caught: the exception it caught and where that was raised; dropped: the
\* errorNumber of a Result it was returned and did not look at; opts: the
\* rocksdb::ReadOptions returned
NoCall == [op |-> "none", g |-> 0, key |-> "-", val |-> "-", arg |-> FALSE,
           hint |-> "-", native |-> "-", res |-> "-", out |-> "-",
           ret |-> FALSE, threw |-> FALSE,
           caught |-> [at |-> "nowhere", kind |-> "-"], dropped |-> "-",
           opts |-> DefaultReadOptions]

TrxStrategies == {"Trx", "TrxUntracked"}

\* ------------------------------------------- the engine, at its interface

\* rocksdb::Transaction::Get and WriteBatchWithIndex::GetFromBatchAndDB:
\* the batch's own pending write on the key, else the database
BatchGet(b, d, k) ==
  IF b[k] = Unset
  THEN IF d[k] = NoVal
       THEN [status |-> "NotFound", value |-> NoVal]
       ELSE [status |-> "OK", value |-> d[k]]
  ELSE IF b[k] = Deleted
       THEN [status |-> "NotFound", value |-> NoVal]
       ELSE [status |-> "OK", value |-> b[k]]

\* the statuses a lookup can fail with
ReadErrors == {"IOError", "Corruption"}

\* the outcomes of a lookup of k: what BatchGet finds, or a failure
Lookups(b, d, k) ==
  {BatchGet(b, d, k)} \cup {[status |-> e, value |-> NoVal] : e \in ReadErrors}

\* Put, Delete and SingleDelete on a batch; a failed call writes nothing
BatchWrite(b, k, x, st) == IF st = "OK" THEN [b EXCEPT ![k] = x] ELSE b

\* the database once a batch is written to it
BatchApply(b, d) ==
  [k \in Keys |-> IF b[k] = Unset THEN d[k]
                  ELSE IF b[k] = Deleted THEN NoVal ELSE b[k]]

\* rocksdb::Transaction::SetSavePoint
NativeSetSavePoint(sps, b, t) == Append(sps, [batch |-> b, tracked |-> t])

\* rocksdb::Transaction::RollbackToSavePoint: undoes the writes made since
\* the newest savepoint and removes it; NotFound when there is none
NativeRollbackToSavePoint(sps, b, t) ==
  IF sps = <<>>
  THEN [status |-> "NotFound", sps |-> sps, batch |-> b, tracked |-> t]
  ELSE [status |-> "OK", sps |-> SubSeq(sps, 1, Len(sps) - 1),
        batch |-> sps[Len(sps)].batch, tracked |-> sps[Len(sps)].tracked]

\* rocksdb::Transaction::PopSavePoint: removes the newest savepoint and
\* keeps the writes; NotFound when there is none
NativePopSavePoint(sps) ==
  IF sps = <<>>
  THEN [status |-> "NotFound", sps |-> sps]
  ELSE [status |-> "OK", sps |-> SubSeq(sps, 1, Len(sps) - 1)]

\* rocksutils::convertStatus
convertStatus(status, hint) ==
  CASE status = "OK" -> "TRI_ERROR_NO_ERROR"
    [] status = "NotFound" ->
         IF hint = "document" THEN "TRI_ERROR_ARANGO_DOCUMENT_NOT_FOUND"
         ELSE IF hint = "index" THEN "TRI_ERROR_ARANGO_INDEX_NOT_FOUND"
         ELSE "TRI_ERROR_INTERNAL"
    [] status = "Busy" -> "TRI_ERROR_ARANGO_CONFLICT"
    [] OTHER -> "TRI_ERROR_INTERNAL"

\* rocksdb::Transaction::Put, Delete and SingleDelete (track) and their
\* Untracked variants (~track): the batch and the conflict-tracked keys after
\* the call
NativeWrite(b, t, k, x, st, track) ==
  [batch |-> BatchWrite(b, k, x, st),
   tracked |-> IF track /\ st = "OK" THEN t \cup {k} ELSE t]

\* the errorNumber of the Result a Get returns for the lookup outcome s, and
\* the value it hands out
GetResult(s) ==
  [res |-> IF s.status # "OK" THEN convertStatus(s.status, "document")
           ELSE "TRI_ERROR_NO_ERROR",
   out |-> IF s.status = "OK" THEN s.value ELSE "-"]

\* Exists that takes only a successful lookup for a key that exists
ExistsResult_OkOnly(s) == s.status = "OK"

\* what an Exists returns for the lookup outcome s
ExistsResult(s) == s.status # "NotFound"

\* the errorNumber of the Result a write returns for the native status st
WriteResult(st, hint) ==
  IF st = "OK" THEN "TRI_ERROR_NO_ERROR" ELSE convertStatus(st, hint)

\* a write through RocksDBTrxMethods
TrackedWrite(b, t, k, x, hint, st) ==
  LET n == NativeWrite(b, t, k, x, st, TRUE)
  IN [batch |-> n.batch, tracked |-> n.tracked, res |-> WriteResult(st, hint)]

\* an untracked write that goes to the tracked native call
UntrackedWrite_Tracked(b, t, k, x, hint, st) ==
  LET n == NativeWrite(b, t, k, x, st, TRUE)
  IN [batch |-> n.batch, tracked |-> n.tracked, res |-> WriteResult(st, hint)]

\* a write through RocksDBTrxUntrackedMethods
UntrackedWrite(b, t, k, x, hint, st) ==
  LET n == NativeWrite(b, t, k, x, st, FALSE)
  IN [batch |-> n.batch, tracked |-> n.tracked, res |-> WriteResult(st, hint)]

\* what the transaction sees for each key
View == [k \in Keys |-> BatchGet(pending, db, k).value]

\* what the write batch of RocksDBBatchedMethods sees for each key
BatchView == [k \in Keys |-> BatchGet(wb, db, k).value]

\* ------------------------------------------------------------- recording

AliveGuards == {g \in Guards : life[g] = "alive"}

\* the guard whose scope the caller is in: the innermost alive one, else 0
Scope ==
  IF AliveGuards = {} THEN 0
  ELSE CHOOSE g \in AliveGuards : \A h \in AliveGuards : h <= g

\* the sequence SetSavePoint; Put(k, v); RollbackToSavePoint; Get(k), as
\* far as the calls made so far have followed it: phase counts the calls of
\* it made, key is k, pre is what k held before the Put
C7Step(c, seen) ==
  IF c.op = "SetSavePoint"
  THEN [phase |-> 1, key |-> "-", pre |-> "-"]
  ELSE IF c7.phase = 1 /\ c.op = "Put" /\ c.res = "TRI_ERROR_NO_ERROR"
  THEN [phase |-> 2, key |-> c.key, pre |-> seen[c.key]]
  ELSE IF c7.phase = 2 /\ c.op = "RollbackToSavePoint"
  THEN [c7 EXCEPT !.phase = 3]
  ELSE IF c7.phase = 3 /\ c.op = "Get" /\ c.key = c7.key
  THEN [c7 EXCEPT !.phase = 4]
  ELSE [phase |-> 0, key |-> "-", pre |-> "-"]

\* no transaction run alongside
NoTwin == [on |-> FALSE, pending |-> EmptyBatch, tracked |-> {}, res |-> "-",
          out |-> "-", ret |-> FALSE]

\* the call c, with the same native status, made on the transaction run
\* alongside, which uses the other one of the two transactional strategies
TwinStep(c) ==
  IF ~twin.on THEN twin
  ELSE IF c.op \in {"Put", "Delete", "SingleDelete"}
  THEN LET x == IF c.op = "Put" THEN c.val ELSE Deleted
           o == IF strategy = "Trx"
                THEN UntrackedWrite(twin.pending, twin.tracked, c.key, x,
                                    c.hint, c.native)
                ELSE TrackedWrite(twin.pending, twin.tracked, c.key, x,
                                  c.hint, c.native)
       IN [twin EXCEPT !.pending = o.batch, !.tracked = o.tracked,
                       !.res = o.res, !.out = "-", !.ret = FALSE]
  ELSE IF c.op = "Get"
  THEN LET r == GetResult(BatchGet(twin.pending, db, c.key))
       IN [twin EXCEPT !.res = r.res, !.out = r.out, !.ret = FALSE]
  ELSE IF c.op = "Exists"
  THEN [twin EXCEPT !.res = "-", !.out = "-",
          !.ret = ExistsResult(BatchGet(twin.pending, db, c.key))]
  ELSE twin

\* what every call leaves behind
RecordCall(c) ==
  /\ lastCall' = c
  /\ c7' = C7Step(c, View)
  /\ twin' = TwinStep(c)
  /\ depthAtFirst' = IF c.op = "SavePoint" /\ nCtor = 0
                     THEN Len(savePoints) ELSE depthAtFirst

\* a call that does not touch the TransactionState's hints, read options or
\* read snapshot
Record(c) ==
  /\ RecordCall(c)
  /\ UNCHANGED stateVars

\* --------------------------------------------------------- RocksDBMethods

AllStrategies == {"ReadOnly", "Trx", "TrxUntracked", "Batched"}
Hints == {"INTERMEDIATE_COMMITS", "SINGLE_OPERATION"}

\* iteratorReadOptions() that sets the snapshot on the TransactionState's own
\* read options
iteratorReadOptions_InPlace(h, ro, snap) ==
  IF "INTERMEDIATE_COMMITS" \in h
  THEN [returned |-> [ro EXCEPT !.snapshot = snap],
        state |-> [ro EXCEPT !.snapshot = snap]]
  ELSE [returned |-> ro, state |-> ro]

\* iteratorReadOptions(): the read options returned, and _rocksReadOptions
\* after the call
iteratorReadOptions(h, ro, snap) ==
  IF "INTERMEDIATE_COMMITS" \in h
  THEN [returned |-> [ro EXCEPT !.snapshot = snap], state |-> ro]
  ELSE [returned |-> ro, state |-> ro]

RocksDBMethodsIteratorReadOptions ==
  /\ strategy \in AllStrategies
  /\ LET r == iteratorReadOptions(hints, rocksReadOptions, readSnapshot)
     IN /\ rocksReadOptions' = r.state
        /\ RecordCall([NoCall EXCEPT !.op = "iteratorReadOptions",
                                     !.opts = r.returned])
  /\ UNCHANGED <<strategy, singleOp, kvVars, guardVars, histVars, idxVars,
                 hints, readSnapshot>>

\* a write of x on key k made in the current scope
NoteWrite(k, x, st) ==
  IF st = "OK" /\ Scope # 0
  THEN putUnder' = [putUnder EXCEPT ![Scope][k] = x]
  ELSE UNCHANGED putUnder

\* ------------------------------------------------------ RocksDBTrxMethods

\* Exists and Get, for the outcome s of the native transaction's lookup
RocksDBTrxMethodsExists(k, s) ==
  /\ strategy \in TrxStrategies
  /\ s \in Lookups(pending, db, k)
  /\ Record([NoCall EXCEPT !.op = "Exists", !.key = k, !.native = s.status,
                           !.ret = ExistsResult(s)])
  /\ UNCHANGED <<strategy, singleOp, kvVars, guardVars, histVars, idxVars>>

RocksDBTrxMethodsGet(k, s) ==
  /\ strategy \in TrxStrategies
  /\ s \in Lookups(pending, db, k)
  /\ LET rv == GetResult(s)
     IN Record([NoCall EXCEPT !.op = "Get", !.key = k, !.res = rv.res,
                              !.native = s.status, !.out = rv.out])
  /\ UNCHANGED <<strategy, singleOp, kvVars, guardVars, histVars, idxVars>>

\* the write of x on key k with native status st and outcome o
TrxWrite(op, k, x, hint, st, o) ==
  /\ pending' = o.batch
  /\ tracked' = o.tracked
  /\ NoteWrite(k, x, st)
  /\ Record([NoCall EXCEPT !.op = op, !.key = k,
               !.val = IF x = Deleted THEN "-" ELSE x, !.hint = hint,
               !.native = st, !.res = o.res])
  /\ UNCHANGED <<strategy, singleOp, db, savePoints, wb, guardVars, idxVars>>

\* Put that forwards to the native Delete
RocksDBTrxMethodsPut_AsDelete(k, v, hint, st) ==
  /\ strategy = "Trx"
  /\ pending' = BatchWrite(pending, k, Deleted, st)
  /\ tracked' = IF st = "OK" THEN tracked \cup {k} ELSE tracked
  /\ NoteWrite(k, Deleted, st)
  /\ Record([NoCall EXCEPT !.op = "Put", !.key = k, !.val = v, !.hint = hint,
               !.native = st, !.res = WriteResult(st, hint)])
  /\ UNCHANGED <<strategy, singleOp, db, savePoints, wb, guardVars, idxVars>>

RocksDBTrxMethodsPut(k, v, hint, st) ==
  /\ strategy = "Trx"
  /\ TrxWrite("Put", k, v, hint, st,
              TrackedWrite(pending, tracked, k, v, hint, st))

RocksDBTrxMethodsDelete(k, st) ==
  /\ strategy = "Trx"
  /\ TrxWrite("Delete", k, Deleted, "none", st,
              TrackedWrite(pending, tracked, k, Deleted, "none", st))

RocksDBTrxMethodsSingleDelete(k, st) ==
  /\ strategy = "Trx"
  /\ TrxWrite("SingleDelete", k, Deleted, "none", st,
              TrackedWrite(pending, tracked, k, Deleted, "none", st))

\* --------------------------------------------- RocksDBTrxUntrackedMethods

RocksDBTrxUntrackedMethodsPut(k, v, hint, st) ==
  /\ strategy = "TrxUntracked"
  /\ TrxWrite("Put", k, v, hint, st,
              UntrackedWrite(pending, tracked, k, v, hint, st))

RocksDBTrxUntrackedMethodsDelete(k, st) ==
  /\ strategy = "TrxUntracked"
  /\ TrxWrite("Delete", k, Deleted, "none", st,
              UntrackedWrite(pending, tracked, k, Deleted, "none", st))

RocksDBTrxUntrackedMethodsSingleDelete(k, st) ==
  /\ strategy = "TrxUntracked"
  /\ TrxWrite("SingleDelete", k, Deleted, "none", st,
              UntrackedWrite(pending, tracked, k, Deleted, "none", st))

\* SetSavePoint that does not reach the native transaction
TrxSetSavePoint_Missing == savePoints

\* RocksDBTrxMethods::SetSavePoint: the savepoint stack after the call
TrxSetSavePoint == NativeSetSavePoint(savePoints, pending, tracked)

\* RollbackToSavePoint that forwards to the native PopSavePoint
TrxRollbackToSavePoint_PopOnly ==
  LET r == NativePopSavePoint(savePoints)
  IN [res |-> convertStatus(r.status, "none"), sps |-> r.sps,
      batch |-> pending, tracked |-> tracked]

\* RocksDBTrxMethods::RollbackToSavePoint: the Result and the transaction
\* after the call
TrxRollbackToSavePoint ==
  LET r == NativeRollbackToSavePoint(savePoints, pending, tracked)
  IN [res |-> convertStatus(r.status, "none"), sps |-> r.sps,
      batch |-> r.batch, tracked |-> r.tracked]

\* PopSavePoint that does not reach the native transaction
TrxPopSavePoint_Noop == savePoints

\* RocksDBTrxMethods::PopSavePoint: the savepoint stack after the call (the
\* status is looked at in maintainer mode only)
TrxPopSavePoint == NativePopSavePoint(savePoints).sps

\* the three, called on the methods object directly
RocksDBTrxMethodsSetSavePoint ==
  /\ strategy \in TrxStrategies
  /\ Len(savePoints) < MaxSavePoints
  /\ savePoints' = TrxSetSavePoint
  /\ Record([NoCall EXCEPT !.op = "SetSavePoint", !.res = "void"])
  /\ UNCHANGED <<strategy, singleOp, db, pending, tracked, wb, guardVars,
                 histVars, idxVars>>

RocksDBTrxMethodsRollbackToSavePoint ==
  /\ strategy \in TrxStrategies
  /\ LET r == TrxRollbackToSavePoint
     IN /\ savePoints' = r.sps
        /\ pending' = r.batch
        /\ tracked' = r.tracked
        /\ Record([NoCall EXCEPT !.op = "RollbackToSavePoint",
                                 !.res = r.res])
  /\ UNCHANGED <<strategy, singleOp, db, wb, guardVars, histVars, idxVars>>

RocksDBTrxMethodsPopSavePoint ==
  /\ strategy \in TrxStrategies
  /\ savePoints' = TrxPopSavePoint
  /\ Record([NoCall EXCEPT !.op = "PopSavePoint", !.res = "void"])
  /\ UNCHANGED <<strategy, singleOp, db, pending, tracked, wb, guardVars,
                 histVars, idxVars>>

\* the transaction commits what it has written so far and goes on in a new
\* native transaction, which has no savepoint
IntermediateCommit ==
  /\ strategy \in TrxStrategies
  /\ ~singleOp
  /\ db' = BatchApply(pending, db)
  /\ pending' = EmptyBatch
  /\ savePoints' = <<>>
  /\ tracked' = {}
  /\ commitSince' =
       [g \in Guards |-> \/ commitSince[g]
                         \/ life[g] = "alive" /\ issued[g] # <<>>]
  /\ Record([NoCall EXCEPT !.op = "IntermediateCommit"])
  /\ UNCHANGED <<strategy, singleOp, wb, life, handled, operationType, issued,
                 notifiedType, firstFinish, staleCalls, viewAtSet,
                 outerAtCtor, nCtor, histVars, idxVars>>

\* ------------------------------------------------------- RocksDBSavePoint

CountIn(calls, name) == Cardinality({i \in DOMAIN calls : calls[i] = name})

Count(g, name) == CountIn(issued[g], name)

\* a constructor that sets a savepoint on every transaction
CtorHandled_Never(single) == FALSE

\* the initial value of _handled
CtorHandled(single) == single

\* finish() that does not look at its argument
FinishPops_IgnoresFlag(h, hasPerformedIntermediateCommit) == ~h

\* whether finish() pops the savepoint
FinishPops(h, hasPerformedIntermediateCommit) ==
  ~h /\ ~hasPerformedIntermediateCommit

\* finish() that leaves _handled as it was
FinishHandled_Keeps(h) == h

\* the value of _handled when finish() returns
FinishHandled(h) == TRUE

\* a destructor with its test inverted
DtorRollsBack_Inverted(h) == h

\* whether the destructor calls rollback()
DtorRollsBack(h) == ~h

\* rollback() that notifies the TransactionState first
RollbackCalls_NotifyFirst == <<"rollbackOperation", "RollbackToSavePoint">>

\* the calls rollback() makes, in order
RollbackCalls == <<"RollbackToSavePoint", "rollbackOperation">>

\* no exception
NoFault == [at |-> "nowhere", kind |-> "-"]

\* the exceptions rollback() can end with: where one is raised (in the native
\* RollbackToSavePoint, in the conversion of its status once it is done, or
\* in rollbackOperation) and whether it is a std::exception
FaultPoints == {"RollbackToSavePoint", "convertStatus", "rollbackOperation"}
ExceptionKinds == {"std::exception", "other"}
Faults == [at : FaultPoints, kind : ExceptionKinds]

\* the call of rollback() an exception comes out of
FaultCall(ex) ==
  IF ex.at = "convertStatus" THEN "RollbackToSavePoint" ELSE ex.at

\* the calls rollback() makes when it ends with ex: those up to the one the
\* exception comes out of
CallsMade(ex) ==
  IF ex = NoFault THEN RollbackCalls
  ELSE SubSeq(RollbackCalls, 1,
              CHOOSE i \in DOMAIN RollbackCalls :
                RollbackCalls[i] = FaultCall(ex))

\* a destructor without the catch (...) handler
DtorCatches_StdOnly(kind) == kind = "std::exception"

\* whether one of the destructor's handlers catches an exception: the first
\* takes a std::exception, the second anything
DtorCatches(kind) == kind = "std::exception" \/ TRUE

\* the value of _handled when rollback() returns
RollbackHandled == TRUE

RocksDBSavePointCtor(g, operationType_) ==
  /\ strategy \in TrxStrategies
  /\ g \in Guards
  /\ g = nCtor + 1
  /\ nCtor' = g
  /\ life' = [life EXCEPT ![g] = "alive"]
  /\ operationType' = [operationType EXCEPT ![g] = operationType_]
  /\ handled' = [handled EXCEPT ![g] = CtorHandled(singleOp)]
  /\ IF ~CtorHandled(singleOp)
     THEN /\ savePoints' = TrxSetSavePoint
          /\ issued' = [issued EXCEPT ![g] = <<"SetSavePoint">>]
     ELSE UNCHANGED <<savePoints, issued>>
  /\ viewAtSet' = [viewAtSet EXCEPT ![g] = View]
  /\ outerAtCtor' = [outerAtCtor EXCEPT ![g] = AliveGuards]
  /\ Record([NoCall EXCEPT !.op = "SavePoint", !.g = g])
  /\ UNCHANGED <<strategy, singleOp, db, pending, tracked, wb, notifiedType,
                 firstFinish, commitSince, staleCalls, histVars, idxVars>>

finish(g, hasPerformedIntermediateCommit) ==
  /\ life[g] = "alive"
  /\ firstFinish' =
       [firstFinish EXCEPT
          ![g] = IF @ # "none" THEN @
                 ELSE IF hasPerformedIntermediateCommit THEN "true"
                 ELSE "false"]
  /\ IF FinishPops(handled[g], hasPerformedIntermediateCommit)
     THEN /\ savePoints' = TrxPopSavePoint
          /\ issued' = [issued EXCEPT ![g] = Append(@, "PopSavePoint")]
          /\ staleCalls' = [staleCalls EXCEPT
                              ![g] = IF commitSince[g] THEN @ + 1 ELSE @]
     ELSE UNCHANGED <<savePoints, issued, staleCalls>>
  /\ handled' = [handled EXCEPT ![g] = FinishHandled(@)]
  /\ Record([NoCall EXCEPT !.op = "finish", !.g = g,
                           !.arg = hasPerformedIntermediateCommit])
  /\ UNCHANGED <<strategy, singleOp, db, pending, tracked, wb, life,
                 operationType, notifiedType, commitSince, viewAtSet,
                 outerAtCtor, nCtor, histVars, idxVars>>

\* rollback() that returns when RollbackToSavePoint has returned a failure
RollbackGoesOn_OnSuccess(res) == res = "TRI_ERROR_NO_ERROR"

\* whether rollback() goes on when RollbackToSavePoint has returned the
\* Result res: the Result is dropped
RollbackGoesOn(res) == TRUE

\* whether RollbackToSavePoint returns to rollback() when that ends with ex
RollbackReturned(ex) == ex.at \notin {"RollbackToSavePoint", "convertStatus"}

\* rollback() as the destructor runs it, ending normally (NoFault) or with
\* the exception ex: a call is made when the ones before it have returned,
\* the native rollback is done unless it is the one that throws, and
\* _handled is set when all calls have returned
rollback(g, ex) ==
  LET r == TrxRollbackToSavePoint
      calls == IF RollbackReturned(ex) /\ ~RollbackGoesOn(r.res)
               THEN <<"RollbackToSavePoint">>
               ELSE CallsMade(ex)
      made(c) == \E i \in DOMAIN calls : calls[i] = c
      rolledBack == made("RollbackToSavePoint") /\ ex.at # "RollbackToSavePoint"
  IN /\ savePoints' = IF rolledBack THEN r.sps ELSE savePoints
     /\ pending' = IF rolledBack THEN r.batch ELSE pending
     /\ tracked' = IF rolledBack THEN r.tracked ELSE tracked
     /\ issued' = [issued EXCEPT ![g] = @ \o calls]
     /\ notifiedType' = [notifiedType EXCEPT
                           ![g] = IF made("rollbackOperation")
                                  THEN operationType[g] ELSE @]
     /\ staleCalls' = [staleCalls EXCEPT
                         ![g] = IF commitSince[g] /\ made("RollbackToSavePoint")
                                THEN @ + 1 ELSE @]
     /\ handled' = [handled EXCEPT
                      ![g] = IF ex = NoFault /\ RollbackGoesOn(r.res)
                             THEN RollbackHandled ELSE @]

\* the destructor, for the way ex its rollback() ends if it runs one
RocksDBSavePointDtor(g, ex) ==
  /\ life[g] = "alive"
  /\ g = Scope
  /\ ex \in Faults \cup {NoFault}
  /\ life' = [life EXCEPT ![g] = "destroyed"]
  /\ IF DtorRollsBack(handled[g])
     THEN /\ rollback(g, ex)
          /\ Record([NoCall EXCEPT !.op = "~SavePoint", !.g = g,
                       !.dropped = IF RollbackReturned(ex)
                                   THEN TrxRollbackToSavePoint.res ELSE "-",
                       !.caught = IF DtorCatches(ex.kind) THEN ex ELSE NoFault,
                       !.threw = ex # NoFault /\ ~DtorCatches(ex.kind)])
     ELSE /\ ex = NoFault
          /\ UNCHANGED <<savePoints, pending, tracked, issued, notifiedType,
                         staleCalls, handled>>
          /\ Record([NoCall EXCEPT !.op = "~SavePoint", !.g = g])
  /\ UNCHANGED <<strategy, singleOp, db, wb, operationType, firstFinish,
                 commitSince, viewAtSet, outerAtCtor, nCtor, histVars,
                 idxVars>>

\* ------------------------------------------------------ the guarded run

InitGuards ==
  /\ life = [g \in Guards |-> "unborn"]
  /\ handled = [g \in Guards |-> FALSE]
  /\ operationType = [g \in Guards |-> "-"]
  /\ issued = [g \in Guards |-> <<>>]
  /\ notifiedType = [g \in Guards |-> "-"]
  /\ firstFinish = [g \in Guards |-> "none"]
  /\ commitSince = [g \in Guards |-> FALSE]
  /\ staleCalls = [g \in Guards |-> 0]
  /\ viewAtSet = [g \in Guards |-> EmptyDB]
  /\ outerAtCtor = [g \in Guards |-> {}]
  /\ putUnder = [g \in Guards |-> EmptyBatch]
  /\ nCtor = 0

InitIndexing ==
  /\ indexingDisabled = FALSE
  /\ nativeIndexing = TRUE
  /\ nativeIdxCalls = <<>>
  /\ idxCalls = <<>>

\* a transaction that has written nothing, before the first call
InitCalls ==
  /\ pending = EmptyBatch
  /\ savePoints = <<>>
  /\ tracked = {}
  /\ wb = EmptyBatch
  /\ c7 = [phase |-> 0, key |-> "-", pre |-> "-"]
  /\ lastCall = NoCall
  /\ depthAtFirst = 0

InitTrx ==
  /\ InitCalls
  /\ twin = NoTwin

\* a TransactionState without hints that reads from a snapshot of its own
InitState ==
  /\ hints = {}
  /\ rocksReadOptions = [DefaultReadOptions EXCEPT !.snapshot = "snapA"]
  /\ readSnapshot = NoSnapshot

Init ==
  /\ strategy \in TrxStrategies
  /\ singleOp \in BOOLEAN
  /\ db = EmptyDB
  /\ InitTrx
  /\ InitGuards
  /\ InitIndexing
  /\ InitState

\* the statuses a write on the native transaction ends with
WriteStatus == {"OK", "Busy"}

Next ==
  \/ IntermediateCommit
  \/ \E g \in Guards, t \in OpTypes : RocksDBSavePointCtor(g, t)
  \/ \E g \in Guards : RocksDBSavePointDtor(g, NoFault)
  \/ \E g \in Guards, b \in BOOLEAN : finish(g, b)

Spec == Init /\ [][Next]_vars

\* ----------------------------------------- guards whose rollback can throw

NextFaults ==
  \/ \E g \in Guards, t \in OpTypes : RocksDBSavePointCtor(g, t)
  \/ \E g \in Guards, b \in BOOLEAN : finish(g, b)
  \/ \E g \in Guards, ex \in Faults \cup {NoFault} :
       RocksDBSavePointDtor(g, ex)

SpecFaults == Init /\ [][NextFaults]_vars

\* -------------------------------------------- guarded document operations

InitOps ==
  /\ strategy \in TrxStrategies
  /\ singleOp = FALSE
  /\ db = EmptyDB
  /\ InitTrx
  /\ InitGuards
  /\ InitIndexing
  /\ InitState

\* one document operation at a time: its guard is constructed, it writes,
\* and the guard is finished or destroyed before the next one starts
NextOps ==
  \/ \E k \in Keys : RocksDBTrxMethodsGet(k, BatchGet(pending, db, k))
  \/ \E k \in Keys :
       Scope # 0 /\ RocksDBTrxMethodsPut(k, "v1", "document", "OK")
  \/ \E k \in Keys : Scope # 0 /\ RocksDBTrxMethodsDelete(k, "OK")
  \/ \E k \in Keys :
       Scope # 0 /\ RocksDBTrxUntrackedMethodsPut(k, "v1", "document", "OK")
  \/ \E k \in Keys : Scope # 0 /\ RocksDBTrxUntrackedMethodsDelete(k, "OK")
  \/ \E g \in Guards : AliveGuards = {} /\ RocksDBSavePointCtor(g, "INSERT")
  \/ \E g \in Guards, b \in BOOLEAN : finish(g, b)
  \/ \E g \in Guards : RocksDBSavePointDtor(g, NoFault)

SpecOps == InitOps /\ [][NextOps]_vars

\* ------------------------------- the transactional strategies on their own

\* reads that find what is there and writes of either outcome
TrxReadWrite ==
  \/ \E k \in Keys : RocksDBTrxMethodsExists(k, BatchGet(pending, db, k))
  \/ \E k \in Keys : RocksDBTrxMethodsGet(k, BatchGet(pending, db, k))
  \/ \E k \in Keys, v \in Values, st \in WriteStatus :
       RocksDBTrxMethodsPut(k, v, "document", st)
  \/ \E k \in Keys, st \in WriteStatus : RocksDBTrxMethodsDelete(k, st)
  \/ \E k \in Keys, st \in WriteStatus : RocksDBTrxMethodsSingleDelete(k, st)
  \/ \E k \in Keys, v \in Values, st \in WriteStatus :
       RocksDBTrxUntrackedMethodsPut(k, v, "document", st)
  \/ \E k \in Keys, st \in WriteStatus :
       RocksDBTrxUntrackedMethodsDelete(k, st)
  \/ \E k \in Keys, st \in WriteStatus :
       RocksDBTrxUntrackedMethodsSingleDelete(k, st)

NextMethods ==
  \/ TrxReadWrite
  \/ RocksDBTrxMethodsSetSavePoint
  \/ RocksDBTrxMethodsRollbackToSavePoint
  \/ RocksDBTrxMethodsPopSavePoint
  \/ IntermediateCommit

SpecMethods == InitOps /\ [][NextMethods]_vars

\* ------------------- guarded writes with intermediate commits in between

\* one document operation at a time: its guard is constructed, it writes,
\* the transaction may commit what it holds, and the guard is destroyed
NextStale ==
  \/ \E g \in Guards, t \in OpTypes :
       AliveGuards = {} /\ RocksDBSavePointCtor(g, t)
  \/ \E k \in Keys :
       Scope # 0 /\ RocksDBTrxMethodsPut(k, "v1", "document", "OK")
  \/ \E k \in Keys :
       Scope # 0 /\ RocksDBTrxUntrackedMethodsPut(k, "v1", "document", "OK")
  \/ Scope # 0 /\ IntermediateCommit
  \/ \E g \in Guards : RocksDBSavePointDtor(g, NoFault)

SpecStale == InitOps /\ [][NextStale]_vars

\* ------------------------------------------------ properly nested guards

\* guards that are finished and destroyed innermost first, on a transaction
\* that may hold a savepoint of its own before the first of them
NextNested ==
  \/ nCtor = 0 /\ RocksDBTrxMethodsSetSavePoint
  \/ \E g \in Guards, t \in OpTypes : RocksDBSavePointCtor(g, t)
  \/ \E g \in Guards, b \in BOOLEAN : g = Scope /\ finish(g, b)
  \/ \E g \in Guards : RocksDBSavePointDtor(g, NoFault)

SpecNested == InitOps /\ [][NextNested]_vars

\* ---------------------- the two transactional strategies run side by side

\* the database the two transactions start on
PairContents == {EmptyDB, [k \in Keys |-> IF k = "k1" THEN "v1" ELSE NoVal]}

\* a transaction of either strategy, and one of the other strategy that has
\* written nothing either
InitPair ==
  /\ strategy \in TrxStrategies
  /\ singleOp = FALSE
  /\ db \in PairContents
  /\ InitCalls
  /\ twin = [NoTwin EXCEPT !.on = TRUE]
  /\ InitGuards
  /\ InitIndexing
  /\ InitState

NextPair == TrxReadWrite

SpecPair == InitPair /\ [][NextPair]_vars

\* --------------------------- the transactional strategies: failing lookups

\* lookups of either outcome, over what successful writes have left
NextReads ==
  \/ \E k \in Keys : \E s \in Lookups(pending, db, k) :
       RocksDBTrxMethodsExists(k, s)
  \/ \E k \in Keys : \E s \in Lookups(pending, db, k) :
       RocksDBTrxMethodsGet(k, s)
  \/ \E k \in Keys, v \in Values :
       RocksDBTrxMethodsPut(k, v, "document", "OK")
  \/ \E k \in Keys : RocksDBTrxMethodsDelete(k, "OK")
  \/ \E k \in Keys, v \in Values :
       RocksDBTrxUntrackedMethodsPut(k, v, "document", "OK")
  \/ \E k \in Keys : RocksDBTrxUntrackedMethodsDelete(k, "OK")

SpecReads == InitOps /\ [][NextReads]_vars

\* ------------------------------------------------- RocksDBReadOnlyMethods

\* rocksdb::DB::KeyMayExist: never denies a key that exists, and reports a
\* value as found only for one that does
Probes(d, k) ==
  IF d[k] = NoVal
  THEN {[mayExist |-> FALSE, valueFound |-> FALSE],
        [mayExist |-> TRUE, valueFound |-> FALSE]}
  ELSE {[mayExist |-> TRUE, valueFound |-> FALSE],
        [mayExist |-> TRUE, valueFound |-> TRUE]}

\* Exists that makes the point lookup whatever KeyMayExist returns
ExistsLooksUp_Always(probe) == TRUE

\* whether Exists, the value not found by the probe, makes the point lookup
ExistsLooksUp(probe) == probe.mayExist

\* Exists, for the outcome probe of KeyMayExist and the outcome s the point
\* lookup has if it is made
RocksDBReadOnlyMethodsExists(k, probe, s) ==
  /\ strategy = "ReadOnly"
  /\ probe \in Probes(db, k)
  /\ s \in Lookups(EmptyBatch, db, k)
  /\ LET c == [NoCall EXCEPT !.op = "Exists", !.key = k,
                 !.val = IF probe.valueFound THEN "valueFound"
                         ELSE IF probe.mayExist THEN "mayExist"
                         ELSE "cannotExist"]
     IN IF probe.valueFound
        THEN Record([c EXCEPT !.ret = TRUE])
        ELSE IF ExistsLooksUp(probe)
        THEN Record([c EXCEPT !.native = s.status, !.ret = ExistsResult(s)])
        ELSE Record([c EXCEPT !.ret = FALSE])
  /\ UNCHANGED <<strategy, singleOp, kvVars, guardVars, histVars, idxVars>>

RocksDBReadOnlyMethodsGet(k) ==
  /\ strategy = "ReadOnly"
  /\ LET s == BatchGet(EmptyBatch, db, k)
     IN Record([NoCall EXCEPT !.op = "Get", !.key = k, !.native = s.status,
                  !.res = IF s.status = "OK" THEN "TRI_ERROR_NO_ERROR"
                          ELSE convertStatus(s.status, "document"),
                  !.out = IF s.status = "OK" THEN s.value ELSE "-"])
  /\ UNCHANGED <<strategy, singleOp, kvVars, guardVars, histVars, idxVars>>

\* THROW_ARANGO_EXCEPTION(TRI_ERROR_ARANGO_READ_ONLY)
ReadOnlyThrow(op, k, v) ==
  /\ Record([NoCall EXCEPT !.op = op, !.key = k, !.val = v, !.threw = TRUE,
                           !.res = "TRI_ERROR_ARANGO_READ_ONLY"])
  /\ UNCHANGED <<strategy, singleOp, kvVars, guardVars, histVars, idxVars>>

RocksDBReadOnlyMethodsPut(k, v) ==
  /\ strategy = "ReadOnly"
  /\ ReadOnlyThrow("Put", k, v)

\* Delete that returns the error instead of throwing it
RocksDBReadOnlyMethodsDelete_Returns(k) ==
  /\ strategy = "ReadOnly"
  /\ Record([NoCall EXCEPT !.op = "Delete", !.key = k,
                           !.res = "TRI_ERROR_ARANGO_READ_ONLY"])
  /\ UNCHANGED <<strategy, singleOp, kvVars, guardVars, histVars, idxVars>>

RocksDBReadOnlyMethodsDelete(k) ==
  /\ strategy = "ReadOnly"
  /\ ReadOnlyThrow("Delete", k, "-")

RocksDBReadOnlyMethodsSingleDelete(k) ==
  /\ strategy = "ReadOnly"
  /\ ReadOnlyThrow("SingleDelete", k, "-")

InitReadOnly ==
  /\ strategy = "ReadOnly"
  /\ singleOp \in BOOLEAN
  /\ db \in Contents
  /\ InitTrx
  /\ InitGuards
  /\ InitIndexing
  /\ InitState

NextReadOnly ==
  \/ \E k \in Keys, m, f \in BOOLEAN :
       \E s \in Lookups(EmptyBatch, db, k) :
         RocksDBReadOnlyMethodsExists(k, [mayExist |-> m, valueFound |-> f],
                                      s)
  \/ \E k \in Keys : RocksDBReadOnlyMethodsGet(k)
  \/ \E k \in Keys, v \in Values : RocksDBReadOnlyMethodsPut(k, v)
  \/ \E k \in Keys : RocksDBReadOnlyMethodsDelete(k)
  \/ \E k \in Keys : RocksDBReadOnlyMethodsSingleDelete(k)

SpecReadOnly == InitReadOnly /\ [][NextReadOnly]_vars

\* ------------------------------------- RocksDBTrxMethods: indexing toggle

\* DisableIndexing that returns true also when indexing is disabled already
DisableIndexing_AlwaysTrue ==
  /\ strategy \in TrxStrategies
  /\ Len(idxCalls) < MaxIdxCalls
  /\ nativeIndexing' = FALSE
  /\ nativeIdxCalls' = IF ~indexingDisabled
                       THEN Append(nativeIdxCalls, "DisableIndexing")
                       ELSE nativeIdxCalls
  /\ indexingDisabled' = TRUE
  /\ idxCalls' = Append(idxCalls, [op |-> "DisableIndexing", ret |-> TRUE])
  /\ Record([NoCall EXCEPT !.op = "DisableIndexing", !.ret = TRUE])
  /\ UNCHANGED <<strategy, singleOp, kvVars, guardVars, histVars>>

DisableIndexing ==
  /\ strategy \in TrxStrategies
  /\ Len(idxCalls) < MaxIdxCalls
  /\ IF ~indexingDisabled
     THEN /\ nativeIndexing' = FALSE
          /\ nativeIdxCalls' = Append(nativeIdxCalls, "DisableIndexing")
          /\ indexingDisabled' = TRUE
          /\ idxCalls' = Append(idxCalls, [op |-> "DisableIndexing",
                                           ret |-> TRUE])
          /\ Record([NoCall EXCEPT !.op = "DisableIndexing", !.ret = TRUE])
     ELSE /\ idxCalls' = Append(idxCalls, [op |-> "DisableIndexing",
                                           ret |-> FALSE])
          /\ Record([NoCall EXCEPT !.op = "DisableIndexing", !.ret = FALSE])
          /\ UNCHANGED <<nativeIndexing, nativeIdxCalls, indexingDisabled>>
  /\ UNCHANGED <<strategy, singleOp, kvVars, guardVars, histVars>>

\* EnableIndexing that does not look at _indexingDisabled
EnableIndexing_Unconditional ==
  /\ strategy \in TrxStrategies
  /\ Len(idxCalls) < MaxIdxCalls
  /\ nativeIndexing' = TRUE
  /\ nativeIdxCalls' = Append(nativeIdxCalls, "EnableIndexing")
  /\ indexingDisabled' = FALSE
  /\ idxCalls' = Append(idxCalls, [op |-> "EnableIndexing", ret |-> FALSE])
  /\ Record([NoCall EXCEPT !.op = "EnableIndexing", !.res = "void"])
  /\ UNCHANGED <<strategy, singleOp, kvVars, guardVars, histVars>>

EnableIndexing ==
  /\ strategy \in TrxStrategies
  /\ Len(idxCalls) < MaxIdxCalls
  /\ IF indexingDisabled
     THEN /\ nativeIndexing' = TRUE
          /\ nativeIdxCalls' = Append(nativeIdxCalls, "EnableIndexing")
          /\ indexingDisabled' = FALSE
     ELSE UNCHANGED <<nativeIndexing, nativeIdxCalls, indexingDisabled>>
  /\ idxCalls' = Append(idxCalls, [op |-> "EnableIndexing", ret |-> FALSE])
  /\ Record([NoCall EXCEPT !.op = "EnableIndexing", !.res = "void"])
  /\ UNCHANGED <<strategy, singleOp, kvVars, guardVars, histVars>>

NextIndexing ==
  \/ DisableIndexing
  \/ EnableIndexing

SpecIndexing == Init /\ [][NextIndexing]_vars

\* -------------------------------------------------- RocksDBBatchedMethods

RocksDBBatchedMethodsExists(k) ==
  /\ strategy = "Batched"
  /\ LET s == BatchGet(wb, db, k)
     IN Record([NoCall EXCEPT !.op = "Exists", !.key = k,
                              !.native = s.status,
                              !.ret = (s.status # "NotFound")])
  /\ UNCHANGED <<strategy, singleOp, kvVars, guardVars, histVars, idxVars>>

\* Get that reads the database and not the batch
RocksDBBatchedMethodsGet_DbOnly(k) ==
  /\ strategy = "Batched"
  /\ LET s == BatchGet(EmptyBatch, db, k)
     IN Record([NoCall EXCEPT !.op = "Get", !.key = k, !.native = s.status,
                  !.res = IF s.status = "OK" THEN "TRI_ERROR_NO_ERROR"
                          ELSE convertStatus(s.status, "document"),
                  !.out = IF s.status = "OK" THEN s.value ELSE "-"])
  /\ UNCHANGED <<strategy, singleOp, kvVars, guardVars, histVars, idxVars>>

RocksDBBatchedMethodsGet(k) ==
  /\ strategy = "Batched"
  /\ LET s == BatchGet(wb, db, k)
     IN Record([NoCall EXCEPT !.op = "Get", !.key = k, !.native = s.status,
                  !.res = IF s.status = "OK" THEN "TRI_ERROR_NO_ERROR"
                          ELSE convertStatus(s.status, "document"),
                  !.out = IF s.status = "OK" THEN s.value ELSE "-"])
  /\ UNCHANGED <<strategy, singleOp, kvVars, guardVars, histVars, idxVars>>

\* a write into _wb that returns what the batch's status converts to
BatchedWrite_ReportsStatus(op, k, x, st) ==
  /\ wb' = BatchWrite(wb, k, x, st)
  /\ Record([NoCall EXCEPT !.op = op, !.key = k,
               !.val = IF x = Deleted THEN "-" ELSE x, !.native = st,
               !.res = WriteResult(st, "none")])
  /\ UNCHANGED <<strategy, singleOp, db, pending, savePoints, tracked,
                 guardVars, histVars, idxVars>>

\* the write of x on key k into _wb; the status st of the batch is dropped
BatchedWrite(op, k, x, st) ==
  /\ wb' = BatchWrite(wb, k, x, st)
  /\ Record([NoCall EXCEPT !.op = op, !.key = k,
               !.val = IF x = Deleted THEN "-" ELSE x, !.native = st,
               !.res = "TRI_ERROR_NO_ERROR"])
  /\ UNCHANGED <<strategy, singleOp, db, pending, savePoints, tracked,
                 guardVars, histVars, idxVars>>

RocksDBBatchedMethodsPut(k, v, st) ==
  /\ strategy = "Batched"
  /\ BatchedWrite("Put", k, v, st)

RocksDBBatchedMethodsDelete(k, st) ==
  /\ strategy = "Batched"
  /\ BatchedWrite("Delete", k, Deleted, st)

RocksDBBatchedMethodsSingleDelete(k, st) ==
  /\ strategy = "Batched"
  /\ BatchedWrite("SingleDelete", k, Deleted, st)

\* the owner of the batch writes it to the database and clears it
ApplyBatch ==
  /\ strategy = "Batched"
  /\ db' = BatchApply(wb, db)
  /\ wb' = EmptyBatch
  /\ Record([NoCall EXCEPT !.op = "ApplyBatch"])
  /\ UNCHANGED <<strategy, singleOp, pending, savePoints, tracked, guardVars,
                 histVars, idxVars>>

\* the statuses a write on the batch ends with
BatchStatus == {"OK", "MemoryLimit"}

InitBatched ==
  /\ strategy = "Batched"
  /\ singleOp = FALSE
  /\ db = EmptyDB
  /\ InitTrx
  /\ InitGuards
  /\ InitIndexing
  /\ InitState

NextBatched ==
  \/ \E k \in Keys : RocksDBBatchedMethodsExists(k)
  \/ \E k \in Keys : RocksDBBatchedMethodsGet(k)
  \/ \E k \in Keys, v \in Values, st \in BatchStatus :
       RocksDBBatchedMethodsPut(k, v, st)
  \/ \E k \in Keys, st \in BatchStatus : RocksDBBatchedMethodsDelete(k, st)
  \/ \E k \in Keys, st \in BatchStatus :
       RocksDBBatchedMethodsSingleDelete(k, st)
  \/ ApplyBatch

SpecBatched == InitBatched /\ [][NextBatched]_vars

\* ------------------------------------- RocksDBMethods: iterator options

\* a TransactionState with read options and hints of any kind; one that
\* permits intermediate commits has a read snapshot
InitIterator ==
  /\ strategy \in AllStrategies
  /\ hints \in SUBSET Hints
  /\ singleOp = ("SINGLE_OPERATION" \in hints)
  /\ db = EmptyDB
  /\ rocksReadOptions \in [snapshot : Snapshots \cup {NoSnapshot},
                            fill_cache : BOOLEAN]
  /\ readSnapshot \in Snapshots \cup {NoSnapshot}
  /\ "INTERMEDIATE_COMMITS" \in hints => readSnapshot # NoSnapshot
  /\ InitTrx
  /\ InitGuards
  /\ InitIndexing

NextIterator == RocksDBMethodsIteratorReadOptions

SpecIterator == InitIterator /\ [][NextIterator]_vars

\* ----------------------------------------------------------------- claims

C2_FinishPopsUnlessCommitted ==
  [][\A g \in Guards :
       /\ (lastCall'.op = "finish" /\ lastCall'.g = g /\ ~handled[g]
           /\ lastCall'.arg)
            => /\ issued'[g] = issued[g]
               /\ savePoints' = savePoints
               /\ handled'[g]
       /\ (lastCall'.op = "finish" /\ lastCall'.g = g /\ ~handled[g]
           /\ ~lastCall'.arg)
            => /\ issued'[g] = Append(issued[g], "PopSavePoint")
               /\ savePoints # <<>> =>
                    savePoints' = SubSeq(savePoints, 1, Len(savePoints) - 1)
               /\ handled'[g]
       /\ (lastCall'.op = "~SavePoint" /\ lastCall'.g = g
           /\ life[g] = "alive" /\ firstFinish[g] # "none")
            => /\ issued'[g] = issued[g]
               /\ savePoints' = savePoints
               /\ pending' = pending
     ]_vars

C2_Witness ==
  \E g, h \in Guards :
    /\ ~singleOp
    /\ life[g] = "destroyed" /\ firstFinish[g] = "true"
    /\ issued[g] = <<"SetSavePoint">>
    /\ life[h] = "destroyed" /\ firstFinish[h] = "false"
    /\ issued[h] = <<"SetSavePoint", "PopSavePoint">>

\* C3: no guard issues a PopSavePoint or a RollbackToSavePoint after the
\* transaction has performed an intermediate commit since the guard's
\* SetSavePoint.
C3_LeavesStaleSavePointAlone ==
  \A g \in Guards : staleCalls[g] = 0

\* C4: whatever is called on a guard, it issues at most one call that is a
\* PopSavePoint or a RollbackToSavePoint, and once handled it stays handled.
C4_AtMostOneRelease ==
  [][\A g \in Guards :
       /\ CountIn(issued'[g], "PopSavePoint")
            + CountIn(issued'[g], "RollbackToSavePoint") <= 1
       /\ handled[g] => handled'[g]
     ]_vars

C4_Witness ==
  /\ lastCall.op = "finish"
  /\ ~lastCall.arg
  /\ ~singleOp
  /\ firstFinish[lastCall.g] = "true"
  /\ handled[lastCall.g]
  /\ issued[lastCall.g] = <<"SetSavePoint">>

\* C5: when guard S1 was finished with finish(false) and the next guard S2
\* is destroyed without finish, the transaction shows what it showed when S2
\* was constructed: every key whose last write under S1 was a Put holds that
\* value, and every key S2 wrote that was absent before S2 is absent.
C5_RollbackUndoesOnlyS2 ==
  \A s1, s2 \in Guards :
    ( /\ s2 = s1 + 1
      /\ ~singleOp
      /\ lastCall.op = "~SavePoint" /\ lastCall.g = s2
      /\ firstFinish[s2] = "none"
      /\ life[s1] = "destroyed" /\ firstFinish[s1] = "false" )
    => /\ View = viewAtSet[s2]
       /\ \A k \in Keys :
            /\ putUnder[s1][k] \in Values => View[k] = putUnder[s1][k]
            /\ (putUnder[s2][k] # Unset /\ viewAtSet[s2][k] = NoVal)
                 => View[k] = NoVal

C5_Witness ==
  /\ ~singleOp
  /\ lastCall.op = "~SavePoint" /\ lastCall.g = 2
  /\ firstFinish[2] = "none"
  /\ life[1] = "destroyed" /\ firstFinish[1] = "false"
  /\ putUnder[1] = [k \in Keys |-> IF k = "k1" THEN "v1" ELSE Unset]
  /\ putUnder[2] = [k \in Keys |-> IF k = "k2" THEN "v1" ELSE Unset]
  /\ View = [k \in Keys |-> IF k = "k1" THEN "v1" ELSE NoVal]

\* C6: on RocksDBTrxMethods and RocksDBTrxUntrackedMethods, a Get(K) that
\* follows a successful Put(K, V) returns success with the value V.
C6_GetAfterPut ==
  [][(/\ lastCall.op = "Put"
      /\ lastCall.res = "TRI_ERROR_NO_ERROR"
      /\ lastCall'.op = "Get"
      /\ lastCall'.key = lastCall.key)
       => /\ lastCall'.res = "TRI_ERROR_NO_ERROR"
          /\ lastCall'.out = lastCall.val
     ]_vars

C6_Witness ==
  /\ strategy = "TrxUntracked"
  /\ lastCall.op = "Get"
  /\ lastCall.key = "k1"
  /\ lastCall.res = "TRI_ERROR_NO_ERROR"
  /\ lastCall.out = "v2"
  /\ pending["k1"] = "v2"
  /\ db["k1"] = "v1"

\* C7, as stated: after SetSavePoint, a successful Put(K, V) and
\* RollbackToSavePoint, Get(K) returns not-found, for every key K.
C7_NotFoundAfterRollback ==
  c7.phase = 4 =>
    /\ lastCall.op = "Get" /\ lastCall.key = c7.key
    /\ lastCall.res = "TRI_ERROR_ARANGO_DOCUMENT_NOT_FOUND"

\* C7, amended: after SetSavePoint, a successful Put(K, V) and
\* RollbackToSavePoint, Get(K) returns not-found for every key K that the
\* transaction did not see before the SetSavePoint.
C7_NotFoundAfterRollbackOfNewKey ==
  c7.phase = 4 =>
    /\ lastCall.op = "Get" /\ lastCall.key = c7.key
    /\ c7.pre = NoVal => lastCall.res = "TRI_ERROR_ARANGO_DOCUMENT_NOT_FOUND"

C7_Witness ==
  /\ c7.phase = 4
  /\ c7.pre = NoVal
  /\ lastCall.op = "Get"
  /\ lastCall.res = "TRI_ERROR_ARANGO_DOCUMENT_NOT_FOUND"
  /\ strategy = "Trx"

\* C8: on RocksDBReadOnlyMethods every Put, Delete and SingleDelete ends by
\* throwing TRI_ERROR_ARANGO_READ_ONLY and leaves the database, the
\* transaction's writes and the write batch as they were.
C8_ReadOnlyWritesThrow ==
  [][(strategy = "ReadOnly"
      /\ lastCall'.op \in {"Put", "Delete", "SingleDelete"})
       => /\ lastCall'.threw
          /\ lastCall'.res = "TRI_ERROR_ARANGO_READ_ONLY"
          /\ db' = db
          /\ pending' = pending
          /\ wb' = wb
     ]_vars

C8_Witness ==
  /\ strategy = "ReadOnly"
  /\ lastCall.op = "Delete"
  /\ lastCall.threw
  /\ db[lastCall.key] = NoVal

\* C9: a DisableIndexing() returns true exactly when it is the first call
\* or follows an EnableIndexing(); after a DisableIndexing() the native
\* transaction does not index, after an EnableIndexing() it does; and the
\* native transaction is told only of the calls that change that.
C9_IndexingToggle ==
  LET n == Len(idxCalls)
      first(i) == i = 1 \/ idxCalls[i - 1].op = "EnableIndexing"
      disables == {i \in 1..n : idxCalls[i].op = "DisableIndexing"}
      enables == {i \in 1..n : idxCalls[i].op = "EnableIndexing"}
  IN /\ \A i \in disables : idxCalls[i].ret = first(i)
     /\ n > 0 => (nativeIndexing = (idxCalls[n].op = "EnableIndexing"))
     /\ n = 0 => nativeIndexing
     /\ CountIn(nativeIdxCalls, "DisableIndexing")
          = Cardinality({i \in disables : first(i)})
     /\ CountIn(nativeIdxCalls, "EnableIndexing")
          = Cardinality({i \in enables : ~first(i)})

C9_Witness ==
  /\ Len(idxCalls) = 5
  /\ idxCalls[1] = [op |-> "DisableIndexing", ret |-> TRUE]
  /\ idxCalls[2] = [op |-> "DisableIndexing", ret |-> FALSE]
  /\ idxCalls[3] = [op |-> "DisableIndexing", ret |-> FALSE]
  /\ idxCalls[4].op = "EnableIndexing"
  /\ idxCalls[5].op = "EnableIndexing"
  /\ nativeIndexing
  /\ nativeIdxCalls = <<"DisableIndexing", "EnableIndexing">>

\* C10: on RocksDBBatchedMethods, after a Put(K, V) that the batch took, and
\* before the batch is applied, a Get(K) returns success with V and an
\* Exists(K) returns true.
C10_BatchReadsOwnWrite ==
  [][(/\ strategy = "Batched"
      /\ lastCall.op = "Put"
      /\ lastCall.native = "OK"
      /\ lastCall'.key = lastCall.key)
       => /\ lastCall'.op = "Get" =>
               /\ lastCall'.res = "TRI_ERROR_NO_ERROR"
               /\ lastCall'.out = lastCall.val
          /\ lastCall'.op = "Exists" => lastCall'.ret
     ]_vars

C10_Witness ==
  /\ strategy = "Batched"
  /\ lastCall.op = "Get"
  /\ lastCall.res = "TRI_ERROR_NO_ERROR"
  /\ lastCall.out = "v2"
  /\ wb[lastCall.key] = "v2"
  /\ db[lastCall.key] = NoVal

\* C11: constructing a guard on a single-operation transaction leaves it
\* handled, issues no call and leaves the savepoint stack alone, and no guard
\* of such a transaction ever issues a call or is notified, whether it is
\* finished or destroyed; constructing a guard on any other transaction
\* issues exactly one SetSavePoint, which adds one savepoint, and leaves the
\* guard not handled.
C11_SingleOperationGuardIsInert ==
  [][/\ singleOp =>
          \A g \in Guards : issued'[g] = <<>> /\ notifiedType'[g] = "-"
     /\ \A g \in Guards :
          (lastCall'.op = "SavePoint" /\ lastCall'.g = g /\ life[g] = "unborn")
            => IF singleOp
               THEN /\ handled'[g]
                    /\ savePoints' = savePoints
               ELSE /\ ~handled'[g]
                    /\ issued'[g] = <<"SetSavePoint">>
                    /\ Len(savePoints') = Len(savePoints) + 1
    ]_vars

C11_Witness ==
  /\ singleOp
  /\ life[1] = "destroyed" /\ firstFinish[1] = "false"
  /\ life[2] = "destroyed" /\ firstFinish[2] = "none"
  /\ \A g \in Guards : handled[g] /\ issued[g] = <<>>
  /\ savePoints = <<>>

\* C12: whatever exception the rollback run by a guard's destructor ends
\* with, raised by RollbackToSavePoint or by rollbackOperation, the
\* destructor catches it and returns normally, and the guard is destroyed.
C12_DestructorNeverThrows ==
  [][lastCall'.op = "~SavePoint" =>
       /\ ~lastCall'.threw
       /\ life'[lastCall'.g] = "destroyed"
    ]_vars

C12_Witness ==
  /\ lastCall.op = "~SavePoint"
  /\ lastCall.caught = [at |-> "rollbackOperation", kind |-> "other"]
  /\ ~lastCall.threw
  /\ life[lastCall.g] = "destroyed"
  /\ issued[lastCall.g] = <<"SetSavePoint", "RollbackToSavePoint",
                            "rollbackOperation">>

\* C13: a rollback makes its first call to RollbackToSavePoint and, when that
\* has returned, its second and last to rollbackOperation, with the operation
\* type the guard was constructed with; the guard becomes handled only when
\* both have returned, and does so when neither throws.
C13_RollbackOrder ==
  [][\A g \in Guards :
       (lastCall'.op = "~SavePoint" /\ lastCall'.g = g /\ ~handled[g])
         => LET calls == SubSeq(issued'[g], Len(issued[g]) + 1,
                                Len(issued'[g]))
                both == <<"RollbackToSavePoint", "rollbackOperation">>
            IN /\ calls \in {<<"RollbackToSavePoint">>, both}
               /\ (calls = both) = (lastCall'.caught.at
                                      \in {"nowhere", "rollbackOperation"})
               /\ calls = both => notifiedType'[g] = operationType[g]
               /\ calls # both => notifiedType'[g] = notifiedType[g]
               /\ handled'[g] = (lastCall'.caught.at = "nowhere")
    ]_vars

C13_Witness ==
  \E g, h \in Guards :
    /\ life[g] = "destroyed" /\ ~handled[g] /\ operationType[g] = "INSERT"
    /\ issued[g] = <<"SetSavePoint", "RollbackToSavePoint">>
    /\ notifiedType[g] = "-"
    /\ life[h] = "destroyed" /\ handled[h] /\ operationType[h] = "REMOVE"
    /\ issued[h] = <<"SetSavePoint", "RollbackToSavePoint",
                     "rollbackOperation">>
    /\ notifiedType[h] = "REMOVE"
    /\ lastCall.op = "~SavePoint" /\ lastCall.caught.at = "nowhere"

\* C14: when the transaction has the INTERMEDIATE_COMMITS hint,
\* iteratorReadOptions() returns the TransactionState's read options with the
\* snapshot replaced by the transaction's read snapshot; without the hint it
\* returns the TransactionState's read options; and in both cases the
\* TransactionState's own read options, read snapshot and hints are as they
\* were.
C14_IteratorReadOptions ==
  [][lastCall'.op = "iteratorReadOptions" =>
       /\ rocksReadOptions' = rocksReadOptions
       /\ readSnapshot' = readSnapshot
       /\ hints' = hints
       /\ IF "INTERMEDIATE_COMMITS" \in hints
          THEN /\ lastCall'.opts.snapshot = readSnapshot
               /\ lastCall'.opts.fill_cache = rocksReadOptions.fill_cache
          ELSE lastCall'.opts = rocksReadOptions
    ]_vars

C14_Witness ==
  /\ lastCall.op = "iteratorReadOptions"
  /\ "INTERMEDIATE_COMMITS" \in hints
  /\ readSnapshot = "snapB"
  /\ rocksReadOptions = [snapshot |-> NoSnapshot, fill_cache |-> FALSE]
  /\ lastCall.opts = [snapshot |-> "snapB", fill_cache |-> FALSE]

\* C15: RocksDBReadOnlyMethods::Exists returns true without a point lookup
\* when KeyMayExist reports the value found; when KeyMayExist reports only
\* that the key may exist it makes a point lookup and returns false exactly
\* when the status of that is NotFound; when KeyMayExist reports that the key
\* cannot exist it returns false without a point lookup.
C15_ReadOnlyExistsProbe ==
  (strategy = "ReadOnly" /\ lastCall.op = "Exists") =>
    /\ lastCall.val = "valueFound" => lastCall.ret /\ lastCall.native = "-"
    /\ lastCall.val = "mayExist" =>
         /\ lastCall.native \in {"OK", "NotFound"} \cup ReadErrors
         /\ lastCall.ret = (lastCall.native # "NotFound")
    /\ lastCall.val = "cannotExist" =>
         ~lastCall.ret /\ lastCall.native = "-"

C15_Witness ==
  /\ strategy = "ReadOnly"
  /\ lastCall.op = "Exists"
  /\ lastCall.val = "mayExist"
  /\ lastCall.native = "NotFound"
  /\ ~lastCall.ret
  /\ db[lastCall.key] = NoVal

\* C16: on RocksDBTrxMethods and RocksDBTrxUntrackedMethods, Exists returns
\* false exactly when the native transaction's lookup ends with NotFound, so
\* true also when it fails, and Get returns a Result that is a failure exactly
\* when the lookup does not end with OK.
C16_ExistsTakesErrorForPresence ==
  strategy \in TrxStrategies =>
    /\ lastCall.op = "Exists" =>
         lastCall.ret = (lastCall.native # "NotFound")
    /\ lastCall.op = "Get" =>
         (lastCall.res # "TRI_ERROR_NO_ERROR") = (lastCall.native # "OK")

C16_Witness ==
  /\ strategy = "Trx"
  /\ lastCall.op = "Exists"
  /\ lastCall.native = "IOError"
  /\ lastCall.ret
  /\ View[lastCall.key] = NoVal
  /\ GetResult([status |-> "IOError", value |-> NoVal]).res
       = "TRI_ERROR_INTERNAL"

\* C17: on RocksDBBatchedMethods every Put, Delete and SingleDelete returns
\* success without throwing, whatever status the batch's own call ends with,
\* and changes nothing but the write batch, which holds the write when the
\* batch took it; the database changes only when the batch is applied.
C17_BatchedWritesReportSuccess ==
  [][/\ (strategy = "Batched"
         /\ lastCall'.op \in {"Put", "Delete", "SingleDelete"})
          => /\ lastCall'.res = "TRI_ERROR_NO_ERROR"
             /\ ~lastCall'.threw
             /\ db' = db
             /\ <<pending', savePoints', tracked'>>
                  = <<pending, savePoints, tracked>>
             /\ \A k \in Keys : k # lastCall'.key => wb'[k] = wb[k]
             /\ lastCall'.native = "OK" =>
                  wb'[lastCall'.key] = IF lastCall'.op = "Put"
                                       THEN lastCall'.val ELSE Deleted
     /\ (strategy = "Batched" /\ db' # db) => lastCall'.op = "ApplyBatch"
    ]_vars

C17_Witness ==
  /\ strategy = "Batched"
  /\ lastCall.op = "Delete"
  /\ lastCall.native = "MemoryLimit"
  /\ lastCall.res = "TRI_ERROR_NO_ERROR"
  /\ wb[lastCall.key] = Unset
  /\ db[lastCall.key] = "v1"

\* C18: a RocksDBTrxMethods and a RocksDBTrxUntrackedMethods transaction that
\* are given the same Put, Delete, SingleDelete, Get and Exists calls, the
\* native calls of both ending with the same statuses, return the same from
\* every call and hold the same writes; the conflict-tracked keys of the
\* untracked one stay empty, those of the tracked one hold every key written.
C18_UntrackedDiffersInTrackingOnly ==
  twin.on =>
    LET trackedKeys == IF strategy = "Trx" THEN tracked ELSE twin.tracked
        untrackedKeys == IF strategy = "Trx" THEN twin.tracked ELSE tracked
    IN /\ twin.pending = pending
       /\ twin.res = lastCall.res
       /\ twin.out = lastCall.out
       /\ twin.ret = lastCall.ret
       /\ untrackedKeys = {}
       /\ \A k \in Keys : pending[k] # Unset => k \in trackedKeys

C18_Witness ==
  /\ twin.on
  /\ strategy = "TrxUntracked"
  /\ lastCall.op = "Get" /\ lastCall.key = "k1"
  /\ lastCall.out = "v2" /\ twin.out = "v2"
  /\ db["k1"] = "v1"
  /\ pending["k2"] = Deleted
  /\ tracked = {}
  /\ twin.tracked = {"k1", "k2"}

\* C19: in a transaction that is not a single-operation one and performs no
\* intermediate commit, with guards finished and destroyed innermost first
\* and none of them finished with finish(true), the savepoint stack is as
\* deep as it was before the first guard was constructed plus one for every
\* guard that is alive and not handled; so it is as deep as before once every
\* guard has been finished with finish(false) or destroyed.
C19_SavePointDepthRestored ==
  (~singleOp /\ nCtor > 0 /\ \A g \in Guards : firstFinish[g] # "true") =>
    Len(savePoints)
      = depthAtFirst + Cardinality({g \in AliveGuards : ~handled[g]})

C19_Witness ==
  /\ ~singleOp
  /\ nCtor = 2
  /\ AliveGuards = {}
  /\ firstFinish[1] = "false" /\ firstFinish[2] = "none"
  /\ outerAtCtor[2] = {1}
  /\ issued[1] = <<"SetSavePoint", "PopSavePoint">>
  /\ issued[2] = <<"SetSavePoint", "RollbackToSavePoint",
                   "rollbackOperation">>
  /\ depthAtFirst = 1
  /\ Len(savePoints) = 1

\* C20: after any DisableIndexing() and EnableIndexing() calls on a
\* RocksDBTrxMethods object, _indexingDisabled holds exactly when the native
\* transaction does not index, and the calls the native transaction has
\* received are DisableIndexing, EnableIndexing, DisableIndexing, and so on.
C20_IndexingFlagTracksNative ==
  /\ indexingDisabled = ~nativeIndexing
  /\ \A i \in DOMAIN nativeIdxCalls :
       nativeIdxCalls[i] = IF i % 2 = 1 THEN "DisableIndexing"
                           ELSE "EnableIndexing"

C20_Witness ==
  /\ Len(idxCalls) = 6
  /\ idxCalls[1].op = "EnableIndexing"
  /\ idxCalls[6].op = "DisableIndexing"
  /\ nativeIdxCalls = <<"DisableIndexing", "EnableIndexing",
                        "DisableIndexing">>
  /\ indexingDisabled
  /\ ~nativeIndexing

\* C21: when the RollbackToSavePoint of a guard's rollback returns a Result
\* that is a failure, and nothing throws, the guard still makes the
\* rollbackOperation call with its operation type and becomes handled, and
\* the transaction's writes and savepoints are as they were before.
C21_RollbackResultDropped ==
  [][\A g \in Guards :
       ( /\ lastCall'.op = "~SavePoint" /\ lastCall'.g = g /\ ~handled[g]
         /\ lastCall'.caught.at = "nowhere" /\ ~lastCall'.threw
         /\ lastCall'.dropped \notin {"-", "TRI_ERROR_NO_ERROR"} )
       => /\ issued'[g]
               = issued[g] \o <<"RollbackToSavePoint", "rollbackOperation">>
          /\ notifiedType'[g] = operationType[g]
          /\ handled'[g]
          /\ pending' = pending
          /\ savePoints' = savePoints
    ]_vars

C21_Witness ==
  \E g \in Guards :
    /\ lastCall.op = "~SavePoint" /\ lastCall.g = g
    /\ lastCall.dropped = "TRI_ERROR_INTERNAL"
    /\ handled[g]
    /\ operationType[g] = "REMOVE" /\ notifiedType[g] = "REMOVE"
    /\ issued[g] = <<"SetSavePoint", "RollbackToSavePoint",
                     "rollbackOperation">>
    /\ putUnder[g]["k2"] = "v1"
    /\ pending["k2"] = "v1"
    /\ db["k1"] = "v1"

====
